---- MODULE Spec2Model ----
(***************************************************************************)
(* Model of the WhatsApp query classifier: the classification pipeline     *)
(* (app/services/classification_pipeline.py), the follow-up detector, the  *)
(* conversation-history service and the /classify route.                   *)
(*                                                                         *)
(* One request is in flight at a time; pc is its position in               *)
(* ClassificationPipeline.classify.  The semantic oracles (OpenAI calls),  *)
(* the DynamoDB backend and the category handlers' collaborators are       *)
(* external: each action draws the reply of the collaborator it calls      *)
(* from a small set with \E.                                               *)
(*                                                                         *)
(* Optional values: None stands for Python's None where the value is a     *)
(* string; an optional record is a sequence of length 0 or 1.              *)
(* Time is counted in hours (the window arithmetic of history_service.py   *)
(* is linear in the unit).  Confidence scores are in hundredths.           *)
(***************************************************************************)
EXTENDS Integers, Sequences, FiniteSets, TLC

\* ------------------------------------------------------------------ bounds
\* number of clock ticks a behaviour may take
MaxTicks == 1
\* number of requests the route body may serve in a behaviour
MaxRequests == 2

\* ------------------------------------------------------- program constants
\* settings.history_window_hours
WindowHours == 24
\* settings.history_messages_limit
MessagesLimit == 5
\* settings.history_retention_days
RetentionDays == 90
\* process_conversational_doubt: MAX_ATTEMPTS and RETRY_DELAY (seconds)
MAX_ATTEMPTS == 5
RETRY_DELAY == 30

None == "<None>"

\* ------------------------------------------------------------ input sets
\* messages of direct classify_message calls (non-empty strings)
Messages == {"explain more", "thanks, bye"}
\* phone_number arguments: absent (None), empty, or a user's number
PhoneArgs == {None, "", "u1"}
\* timestamps of the records the table may hold when the process starts:
\* exactly on the window start of the first read, just inside, well inside
StoredTimestamps == {WindowHours, WindowHours + 1, WindowHours + 16}
StartNow == 2 * WindowHours
\* messages that reach the body of the route: a non-empty one and one of
\* whitespace only (an empty one is rejected by the request model)
RouteMessages == {"explain more", " "}
\* values of the history_retention_days setting (an int read from the
\* environment, no validation)
RetentionChoices == {0, 1, RetentionDays}
\* timestamps of the turns written before the first read of a run: those
\* of StoredTimestamps and four more inside the window, more than a read
\* returns
TurnTimestamps ==
    StoredTimestamps \cup {WindowHours + 17, WindowHours + 18,
                           WindowHours + 19, WindowHours + 20}
\* users with records in the table
Users == {"u1", "u2"}
\* concurrent calls of classify_message
RunIds == {"r1", "r2"}

\* ------------------------------------------------------------- schemas.py
ClassificationType ==
    {"subject_related", "app_related", "complaint", "guidance_based",
     "conversation_based", "exam_related_info"}

ExamSubClassificationType ==
    {"faq", "pyq_pdf", "asking_PYQ_question", "asking_test",
     "asking_important_question"}

SubjectType == {"Physics", "Chemistry", "Mathematics", "Biology"}

LanguageType == {"English", "Hindi", "Hinglish"}

\* the fields ClassificationRequest declares (pydantic ignores any other
\* key of the request body; reading an undeclared attribute raises)
ClassificationRequestFields == {"message", "metadata"}

\* pydantic validation of ClassificationResponse(...): enum-typed fields
\* accept only the enum's values, confidence_score is within [0, 1]
ValidResponse(r) ==
    /\ r.classification \in ClassificationType
    /\ r.sub_classification \in ExamSubClassificationType \cup {None}
    /\ r.subject \in SubjectType \cup {None}
    /\ r.language \in LanguageType
    /\ r.confidence_score >= 0 /\ r.confidence_score <= 100

\* Python truthiness of an Optional[str]
Truthy(s) == s \notin {None, ""}

\* ------------------------------------------------------------- variables
VARIABLES
    tableReady,        \* HistoryService.table is not None
    store,             \* the items of the DynamoDB table
    now,               \* the clock (time.time())
    ticks,             \* clock ticks taken so far
    pc,                \* position of the request in flight
    entry,             \* "direct" (classify_message call) or "http" (route)
    original_message,  \* the caller's raw message
    phone_number,      \* the caller's phone_number argument
    message,           \* the working message of classify()
    is_follow_up,      \* classify()'s local flag
    history,           \* messages returned by get_conversation_history
    followup_result,   \* FollowUpDetectionResult, <<>> before the stage
    subject,
    language,
    translated_message,
    query_to_classify,
    main_classification,
    sub_classification,
    response_data,     \* the handler result, <<>> for None
    response,          \* the returned ClassificationResponse, <<>> if none
    outcome,           \* "none", "returned", "raised", "http_error"
    error,             \* what raised, "" if nothing
    http_status,       \* status code of the HTTP reply, 0 if none
    failures,          \* stages whose collaborator failed in this run
    calls,             \* the collaborator calls of this run, in order
    raising,           \* the registered handlers are stand-ins that may raise
    retention_days,    \* settings.history_retention_days
    requests,          \* number of requests the route body has served
    simple_response,   \* the {status, message} reply of the route, <<>> if none
    tasks,             \* the detached _save_conversation_history tasks, oldest first
    saved,             \* the finished save tasks, in order
    last_read,         \* the last direct get_conversation_history call
    runs,              \* concurrent classify() coroutines on the event loop
    holder,            \* the coroutine that occupies the event-loop thread
    last_purge,        \* the last delete_old_conversations call
    doubt,             \* a direct conversation_main call and its retry loop
    sdoubt             \* a direct subject_main call

storeVars == <<tableReady, store, now, ticks>>
requestVars == <<original_message, phone_number, entry>>
contextVars == <<message, is_follow_up, history, followup_result, subject,
                 language, translated_message, query_to_classify,
                 main_classification, sub_classification, response_data>>
resultVars == <<response, outcome, error, http_status>>
routeVars == <<requests, simple_response, tasks, saved>>
loopVars == <<runs, holder>>
auxVars == <<last_purge, doubt, sdoubt>>
serviceVars == <<raising, retention_days, routeVars, last_read, loopVars,
                 auxVars>>
vars == <<tableReady, store, now, ticks, pc, entry, original_message,
          phone_number, message, is_follow_up, history, followup_result,
          subject, language, translated_message, query_to_classify,
          main_classification, sub_classification, response_data, response,
          outcome, error, http_status, failures, calls, raising,
          retention_days, requests, simple_response, tasks, saved,
          last_read, runs, holder, last_purge, doubt, sdoubt>>

Call(op, arg) == [op |-> op, arg |-> arg]

\* the oracle stages of the pipeline that follow follow-up detection
DownstreamOps == {"detect", "translate", "classify", "subclassify", "handler"}

CallOps == {calls[i].op : i \in 1..Len(calls)}

\* ----------------------------------------------------- history_service.py
\* the attributes of a stored item that the model keeps (save_conversation
\* lines 82-92); (phone_number, timestamp) is the table's key
Item(phone, ts, ttl, req, resp, fu) ==
    [phone_number |-> phone, timestamp |-> ts, ttl |-> ttl,
     request_message |-> req, response_message |-> resp,
     is_follow_up |-> fu]

put_item_Dropped(items, item) == items

\* table.put_item: the item replaces any item with the same key
put_item(items, item) ==
    {x \in items : ~(x.phone_number = item.phone_number
                      /\ x.timestamp = item.timestamp)} \cup {item}

\* HistoryService._get_cutoff_timestamp
_get_cutoff_timestamp(t) == t - WindowHours

\* the items a DynamoDB query returns for
\*   phone_number = :phone AND #ts > :cutoff, ScanIndexForward=False, Limit
RECURSIVE NewestFirst(_)
NewestFirst(S) ==
    IF S = {} THEN <<>>
    ELSE LET m == CHOOSE x \in S : \A y \in S : y.timestamp <= x.timestamp
         IN <<m>> \o NewestFirst(S \ {m})

Take(seq, n) == SubSeq(seq, 1, IF Len(seq) < n THEN Len(seq) ELSE n)

QueryItems_Inclusive(phone, cutoff, limit) ==
    Take(NewestFirst({it \in store : it.phone_number = phone
                                      /\ it.timestamp >= cutoff}), limit)

QueryItems(phone, cutoff, limit) ==
    Take(NewestFirst({it \in store : it.phone_number = phone
                                      /\ it.timestamp > cutoff}), limit)

\* HistoryService.get_conversation_history: empty when the table was never
\* initialised or when the query raises, else the window's newest messages
get_conversation_history(phone, limit, backendOk) ==
    IF ~tableReady THEN <<>>
    ELSE IF ~backendOk THEN <<>>
    ELSE QueryItems(phone, _get_cutoff_timestamp(now),
                    IF limit = 0 THEN MessagesLimit ELSE limit)

\* the items delete_old_conversations queries, phone_number = :phone AND
\* #ts < :cutoff, in the order of the query (oldest first)
RECURSIVE OldestFirst(_)
OldestFirst(S) ==
    IF S = {} THEN <<>>
    ELSE LET m == CHOOSE x \in S : \A y \in S : x.timestamp <= y.timestamp
         IN <<m>> \o OldestFirst(S \ {m})

OldItems(phone, cutoff) ==
    OldestFirst({it \in store : it.phone_number = phone
                                 /\ it.timestamp < cutoff})

\* --------------------------------------------------- followup_detector.py
\* the replies of the follow-up oracle: the call raises, the reply is not
\* JSON, the JSON does not fit FollowUpDetectionResult, or it is a JSON
\* object with the three fields
FollowUpReplies ==
    [kind : {"raise", "unparseable", "malformed"}, is_follow_up : {FALSE},
     enriched_message : {None}, should_stop : {FALSE}]
    \cup
    [kind : {"json"}, is_follow_up : BOOLEAN,
     enriched_message : {None, "", "explain more about topic X"},
     should_stop : BOOLEAN]

\* the fallback result of detect_and_enrich: not a follow-up
FollowUpFallback ==
    [is_follow_up |-> FALSE, enriched_message |-> None,
     should_stop_conversation |-> FALSE]

ParseFollowUp_StopOnFailure(reply) ==
    IF reply.kind # "json"
    THEN [is_follow_up |-> FALSE, enriched_message |-> None,
          should_stop_conversation |-> TRUE]
    ELSE [is_follow_up |-> reply.is_follow_up,
          enriched_message |->
              IF reply.is_follow_up THEN reply.enriched_message ELSE None,
          should_stop_conversation |-> reply.should_stop]

\* the FollowUpDetectionResult detect_and_enrich builds from a reply
ParseFollowUp(reply) ==
    IF reply.kind # "json" THEN FollowUpFallback
    ELSE [is_follow_up |-> reply.is_follow_up,
          enriched_message |->
              IF reply.is_follow_up THEN reply.enriched_message ELSE None,
          should_stop_conversation |-> reply.should_stop]

\* -------------------------------------------- subject_language_detector.py
\* str.lower() on the strings the oracles reply with
Lower(s) ==
    CASE s = "Physics" -> "physics"
      [] s = "History" -> "history"
      [] s = "English" -> "english"
      [] s = "Hindi" -> "hindi"
      [] s = "Hinglish" -> "hinglish"
      [] s = "Tamil" -> "tamil"
      [] s = "FAQ" -> "faq"
      [] s = "asking_PYQ_question" -> "asking_pyq_question"
      [] s = "Syllabus" -> "syllabus"
      [] OTHER -> s

\* the replies of the detection oracle
DetectReplies ==
    [kind : {"raise", "unparseable"}, subject : {None}, language : {None}]
    \cup
    [kind : {"json"}, subject : {"Physics", "maths", "null", "History"},
     language : {"English", "hindi", "Hinglish", "Tamil", None}]

\* SubjectLanguageDetector._normalize_subject
_normalize_subject(s) ==
    IF ~Truthy(s) \/ Lower(s) = "null" \/ Lower(s) = "none" THEN None
    ELSE CASE Lower(s) = "physics" -> "Physics"
           [] Lower(s) = "chemistry" -> "Chemistry"
           [] Lower(s) \in {"mathematics", "math", "maths"} -> "Mathematics"
           [] Lower(s) \in {"biology", "bio"} -> "Biology"
           [] OTHER -> None

\* SubjectLanguageDetector._normalize_language
_normalize_language(l) ==
    IF ~Truthy(l) THEN "English"
    ELSE CASE Lower(l) = "english" -> "English"
           [] Lower(l) = "hindi" -> "Hindi"
           [] Lower(l) = "hinglish" -> "Hinglish"
           [] OTHER -> "English"

\* ------------------------------------------------------------ translator
\* translate_query(message, stream="pcmb"): the English rendering
translate_query(m) == "en:" \o m

\* ------------------------------------------------------ main_classifier.py
\* ClassifierAgent.valid_categories
valid_categories == ClassificationType

\* the keyword table of ClassifierAgent.classify, in dictionary order
category_keywords ==
    << [category |-> "subject_related",
        keywords |-> {"subject", "academic", "topic", "concept"}],
       [category |-> "app_related",
        keywords |-> {"app", "feature", "batch", "platform", "navigation",
                      "subscription", "pricing", "payment", "discount",
                      "scholarship"}],
       [category |-> "complaint",
        keywords |-> {"complaint", "problem", "issue", "frustration"}],
       [category |-> "guidance_based",
        keywords |-> {"guidance", "study", "planning", "advice"}],
       [category |-> "conversation_based",
        keywords |-> {"conversation", "casual", "greeting"}],
       [category |-> "exam_related_info",
        keywords |-> {"exam", "examination", "pattern", "schedule"}] >>

\* A reply text of the classification oracle is represented by the set of
\* the classifier's terms that occur in it as substrings (a text naming a
\* category also contains the keywords that are substrings of the name).
ClassifierReplyTexts ==
    { {"subject_related", "subject"},
      {"app_related", "app"},
      {"complaint"},
      {"guidance_based", "guidance"},
      {"conversation_based", "conversation"},
      {"exam_related_info", "exam"},
      {"app_related", "app", "exam_related_info", "exam"},
      {"academic"},
      {"study", "exam"},
      {} }

KeywordMatches(text) ==
    {i \in 1..Len(category_keywords) :
        category_keywords[i].keywords \cap text # {}}

ClassifierLabels_NoDefault(text) ==
    IF valid_categories \cap text # {} THEN valid_categories \cap text
    ELSE IF KeywordMatches(text) # {}
    THEN {category_keywords[
              CHOOSE i \in KeywordMatches(text) :
                  \A j \in KeywordMatches(text) : i <= j].category}
    ELSE {"unknown"}

\* ClassifierAgent.classify: the labels it can return for a reply text.  The
\* first loop iterates a Python set, whose order is unspecified, so any
\* category named in the text may be returned.
ClassifierLabels(text) ==
    IF valid_categories \cap text # {} THEN valid_categories \cap text
    ELSE IF KeywordMatches(text) # {}
    THEN {category_keywords[
              CHOOSE i \in KeywordMatches(text) :
                  \A j \in KeywordMatches(text) : i <= j].category}
    ELSE IF {"subject", "academic"} \cap text # {} THEN {"subject_related"}
    ELSE IF {"app", "feature", "subscription", "pricing"} \cap text # {}
    THEN {"app_related"}
    ELSE IF {"complaint", "problem"} \cap text # {} THEN {"complaint"}
    ELSE IF {"guidance", "study"} \cap text # {} THEN {"guidance_based"}
    ELSE IF "exam" \in text THEN {"exam_related_info"}
    ELSE {"conversation_based"}

\* ------------------------------------------------------ exam_classifier.py
\* what the sub-classification call can meet: creating the client raises,
\* the oracle call raises, or the oracle replies with a text
ExamReplies ==
    [kind : {"client_error", "oracle_error"}, text : {None}]
    \cup
    [kind : {"text"},
     text : {"FAQ", "asking_PYQ_question", "asking_test",
             "asking_important_question", "Syllabus"}]

\* ExamClassifierAgent.classify: the lower-cased reply, 'faq' on an error
ExamClassifierAgent_classify(reply) ==
    IF reply.kind = "oracle_error" THEN "faq" ELSE Lower(reply.text)

\* _normalize_exam_classification
_normalize_exam_classification(raw) ==
    CASE Lower(raw) = "faq" -> "faq"
      [] Lower(raw) = "pyq_pdf" -> "pyq_pdf"
      [] Lower(raw) = "asking_pyq_question" -> "asking_PYQ_question"
      [] Lower(raw) = "asking_test" -> "asking_test"
      [] Lower(raw) = "asking_important_question" ->
             "asking_important_question"
      [] OTHER -> raw

\* exam_related_main_classifier as called by the pipeline: the label, or
\* None where the pipeline catches the ClassificationError it raises
exam_related_main_classifier(reply) ==
    IF reply.kind = "client_error" THEN None
    ELSE _normalize_exam_classification(ExamClassifierAgent_classify(reply))

\* ----------------------------------------------- classification_pipeline.py
\* the keys of ClassificationPipeline.handlers
handlers ==
    {"guidance_based", "conversation_based", "exam_related_info",
     "app_related", "subject_related", "complaint"}

\* classify() line 70: follow-up detection runs for this caller
HasPhone_Always(p) == TRUE

HasPhone(p) == Truthy(p)

ShouldStop_Never(fr) == FALSE

ShouldStop_UnlessFollowUp(fr) ==
    /\ fr.should_stop_conversation
    /\ ~(fr.is_follow_up /\ Truthy(fr.enriched_message))

\* classify() line 75: the stop branch is taken
ShouldStop(fr) == fr.should_stop_conversation

UseEnriched_Never(fr) == FALSE

\* classify() line 99: the working message is replaced
UseEnriched(fr) == fr.is_follow_up /\ Truthy(fr.enriched_message)

NeedsTranslation_HindiOnly(lang) == lang = "Hindi"

\* classify() line 123: translation is attempted
NeedsTranslation(lang) == lang \in {"Hindi", "Hinglish"}

NeedsSubClassification_Always(main) == TRUE

\* classify() line 141: sub-classification is attempted
NeedsSubClassification(main) == main = "exam_related_info"

\* the 'data' of a handler result.  kind: "absent" (no 'data' key), "none"
\* (None) or "dict".  formatted_response and text are None when the key is
\* missing; response_kind is "absent", "str" or "dict", and response_text is
\* the string itself, or the 'text' of the dict (None when it has none)
Data(formatted, rkind, rtext, text) ==
    [kind |-> "dict", formatted_response |-> formatted,
     response_kind |-> rkind, response_text |-> rtext, text |-> text]

NoData(kind) ==
    [kind |-> kind, formatted_response |-> None, response_kind |-> "absent",
     response_text |-> None, text |-> None]

\* the ClassificationResponse arguments of the stop branch (lines 78-97)
StopEnvelope(orig) ==
    [classification |-> "conversation_based",
     sub_classification |-> "stop_conversation",
     subject |-> None,
     language |-> "hindi",
     original_message |-> orig,
     translated_message |-> None,
     confidence_score |-> 100,
     response_data |->
         << [status |-> "success", message |-> "", data |-> NoData("none"),
             metadata |-> [is_follow_up |-> FALSE,
                           original_message |-> orig,
                           stop_conversation |-> TRUE]] >>]

\* a non-empty text produced by a response generator
AnswerText == "answer"

\* the results the registered handlers produce.  Every handler wraps its
\* body in try/except Exception and returns its error dict (data None, no
\* metadata) when anything inside raised.
\*   complaint: the fixed placeholder, data.text = "whatsapp"
\*   conversation_based, app_related: the handler passes first_message as
\*     one argument more than conversation_main / app_related_classifier_main
\*     accept, so the call raises TypeError on every run, before any
\*     collaborator is reached: the error dict
\*   guidance_based, subject_related: data.response = {text: ...}; the text
\*     is the generator's (possibly empty) answer or a fixed fallback
\*   exam_related_info: a local template string (asking_important_question),
\*     the FAQ answer as {text: ...} or as a string (faq), else the external
\*     API's reply with or without formatted_response, or the error dict
\*     when the API call raised
HandlerOutcomes(main, sub) ==
    CASE main = "complaint" -> {"complaint"}
      [] main \in {"conversation_based", "app_related"} -> {"type_error"}
      [] main \in {"guidance_based", "subject_related"} ->
            {"text", "empty_text"}
      [] main = "exam_related_info" /\ sub = "asking_important_question" ->
            {"string"}
      [] main = "exam_related_info" /\ sub = "faq" ->
            {"text", "empty_text", "string"}
      [] OTHER -> {"formatted", "text", "error"}

ExamHandlerCalls_ApiAlways(sub, q) ==
    IF sub = "asking_important_question" THEN <<>>
    ELSE IF sub = "faq" THEN <<Call("exam_faq", q), Call("exam_api", q)>>
    ELSE <<Call("exam_api", q)>>

\* ExamHandler.handle lines 48-148: the collaborators the handler calls for
\* a query: none for the local template, the local FAQ handler for faq,
\* else one call of the external exam API (api_client.call_endpoint, which
\* posts once and does not retry)
ExamHandlerCalls(sub, q) ==
    IF sub = "asking_important_question" THEN <<>>
    ELSE IF sub = "faq" THEN <<Call("exam_faq", q)>>
    ELSE <<Call("exam_api", q)>>

\* the collaborator calls made inside the registered handler of a category
HandlerCalls(main, sub, q) ==
    IF main = "exam_related_info" THEN ExamHandlerCalls(sub, q) ELSE <<>>

HandlerResult(main, sub, out) ==
    CASE out \in {"error", "type_error"} ->
            [status |-> "error", data |-> NoData("none"),
             message |-> "Failed to generate response: error",
             has_metadata |-> FALSE]
      [] out = "raise" ->
            [status |-> "error", data |-> NoData("absent"),
             message |-> "Handler failed: error", has_metadata |-> FALSE]
      [] out = "complaint" ->
            [status |-> "success", data |-> Data(None, "absent", None, "whatsapp"),
             message |-> "response generated", has_metadata |-> TRUE]
      [] out = "text" ->
            [status |-> "success", data |-> Data(None, "dict", AnswerText, None),
             message |-> "response generated", has_metadata |-> TRUE]
      [] out = "empty_text" ->
            [status |-> "success", data |-> Data(None, "dict", "", None),
             message |-> "response generated", has_metadata |-> TRUE]
      [] out = "string" ->
            [status |-> "success", data |-> Data(None, "str", AnswerText, None),
             message |-> "response generated", has_metadata |-> TRUE]
      [] OTHER ->
            [status |-> "success",
             data |-> Data(AnswerText, "dict", "", None),
             message |-> "response generated", has_metadata |-> TRUE]

\* classify() lines 155-185: the handler lookup and call; None (<<>>) when
\* no handler is registered for the category.  An exception of the handler
\* is caught at line 178 and replaced by an error dict (out = "raise").
Dispatch(main, sub, out) ==
    IF main \in handlers THEN <<HandlerResult(main, sub, out)>> ELSE <<>>

AddFollowUpMetadata_KeepHandlerMetadata(rd, flag, orig) ==
    IF rd = <<>> THEN <<>>
    ELSE << [status |-> rd[1].status, data |-> rd[1].data,
             message |-> rd[1].message,
             metadata |-> [is_follow_up |-> flag /\ rd[1].has_metadata,
                           original_message |-> orig]] >>

\* classify() lines 190-195: the follow-up flag and the original message
\* are written into the metadata of a handler result that is a dict
AddFollowUpMetadata(rd, flag, orig) ==
    IF rd = <<>> THEN <<>>
    ELSE << [status |-> rd[1].status, data |-> rd[1].data,
             message |-> rd[1].message,
             metadata |-> [is_follow_up |-> flag,
                           original_message |-> orig]] >>

\* the ClassificationResponse arguments of the normal exit (lines 198-208)
Envelope(main, sub, subj, lang, orig, translated, rd) ==
    [classification |-> main,
     sub_classification |-> sub,
     subject |-> subj,
     language |-> lang,
     original_message |-> orig,
     translated_message |-> translated,
     confidence_score |-> 85,
     response_data |-> rd]

\* classify() returns the envelope when pydantic accepts it; a
\* ValidationError is caught at line 222 and re-raised as ClassificationError
Return(env) ==
    /\ pc' = "done"
    /\ http_status' = 0
    /\ IF ValidResponse(env)
       THEN /\ response' = <<env>>
            /\ outcome' = "returned"
            /\ error' = ""
       ELSE /\ response' = <<>>
            /\ outcome' = "raised"
            /\ error' = "envelope_validation"

\* a stage raised: line 222 re-raises it as ClassificationError
Raise(stage) ==
    /\ pc' = "done"
    /\ http_status' = 0
    /\ response' = <<>>
    /\ outcome' = "raised"
    /\ error' = stage

\* classify() lines 74-108: what the pipeline does with the result of
\* detect_and_enrich
ApplyFollowUp(fr) ==
    /\ followup_result' = <<fr>>
    /\ IF ShouldStop(fr)
       THEN /\ Return(StopEnvelope(original_message))
            /\ UNCHANGED <<message, is_follow_up>>
       ELSE /\ message' = IF UseEnriched(fr) THEN fr.enriched_message
                          ELSE message
            /\ is_follow_up' = UseEnriched(fr)
            /\ pc' = "detect"
            /\ UNCHANGED resultVars

\* ----------------------------------------------- utils/response_formatter.py
\* str.strip() on the messages of the model
strip(m) == IF m = " " THEN "" ELSE m

\* data.get('response', {}).get('text', ''): raises when response is a str
ResponseText(data) ==
    IF data.response_kind = "dict" /\ data.response_text # None
    THEN data.response_text ELSE ""

\* extract_user_message: the user-facing text of a handler result.  With
\* data None every branch raises on data.get and the except clause answers
\* "Error generating response"
extract_user_message(rd, classification) ==
    LET data == rd.data IN
    IF data.kind = "absent" THEN "Unable to generate response"
    ELSE IF data.kind = "none" THEN "Error generating response"
    ELSE CASE classification = "guidance_based" ->
                 IF data.response_kind = "str"
                 THEN "Error generating response"
                 ELSE IF Truthy(ResponseText(data)) THEN ResponseText(data)
                 ELSE "No guidance available"
           [] classification = "app_related" ->
                 IF data.response_kind = "str" /\ Truthy(data.response_text)
                 THEN data.response_text
                 ELSE IF data.response_kind = "dict"
                         /\ data.response_text # None
                 THEN data.response_text
                 ELSE "No content available"
           [] classification = "exam_related_info" ->
                 IF Truthy(data.formatted_response)
                 THEN data.formatted_response
                 ELSE IF data.response_kind = "str"
                         /\ Truthy(data.response_text)
                 THEN data.response_text
                 ELSE IF data.response_kind = "dict"
                         /\ data.response_text # None
                 THEN data.response_text
                 ELSE "Exam information not available"
           [] classification = "subject_related" ->
                 IF data.response_kind = "str"
                 THEN "Error generating response"
                 ELSE IF Truthy(ResponseText(data)) THEN ResponseText(data)
                 ELSE "No answer available"
           [] classification = "conversation_based" ->
                 IF data.response_kind = "str" /\ Truthy(data.response_text)
                 THEN data.response_text
                 ELSE "Hello! How can I help you?"
           [] classification = "complaint" ->
                 IF Truthy(data.text) THEN data.text
                 ELSE "Thank you for your feedback"
           [] OTHER ->
                 IF data.response_kind = "str" THEN data.response_text
                 ELSE IF data.response_kind = "dict"
                         /\ data.response_text # None
                 THEN data.response_text
                 ELSE IF data.text # None THEN data.text
                 ELSE "Response generated successfully"

\* transform_to_simple_format: the {status, message} reply for an envelope;
\* len(message) raises on a message that is not a string and the except
\* clause answers "Failed to format response"
transform_to_simple_format(full_response) ==
    LET rd == full_response.response_data IN
    IF rd = <<>>
    THEN [status |-> "error", message |-> "No response generated"]
    ELSE IF rd[1].status = "error"
    THEN [status |-> "error", message |-> rd[1].message]
    ELSE LET m == extract_user_message(rd[1], full_response.classification)
         IN IF m = None
            THEN [status |-> "error", message |-> "Failed to format response"]
            ELSE [status |-> "success", message |-> m]

\* --------------------------------------------------------------- routes.py
\* _save_conversation_history lines 40-52 and 69: the response text that is
\* stored, data.formatted_response or data.response.text, else a placeholder
SavedResponseMessage(full_response) ==
    LET rd == full_response.response_data
        found ==
            IF rd = <<>> THEN ""
            ELSE IF rd[1].data.kind = "none" THEN ""
            ELSE IF Truthy(rd[1].data.formatted_response)
            THEN rd[1].data.formatted_response
            ELSE IF rd[1].data.response_kind = "dict"
            THEN ResponseText(rd[1].data)
            ELSE ""
    IN IF Truthy(found) THEN found ELSE "Response generated"

\* _save_conversation_history lines 55-59: the stored follow-up flag
SavedIsFollowUp(full_response) ==
    IF full_response.response_data = <<>> THEN FALSE
    ELSE full_response.response_data[1].metadata.is_follow_up

\* _save_conversation_history lines 62-77: the record built at time t
\* (for a task of the middleware, _save_history_async lines 153-169: the
\* reply's message, a fixed 90-day ttl, is_follow_up False)
SaveRequest(task, t) ==
    IF task.via = "middleware"
    THEN Item(task.phone_number, t, t + RetentionDays * 24,
              task.request_message,
              transform_to_simple_format(task.full_response).message, FALSE)
    ELSE Item(task.phone_number, t, t + retention_days * 24,
              task.request_message, SavedResponseMessage(task.full_response),
              SavedIsFollowUp(task.full_response))

MiddlewareRegistered_Yes == TRUE

\* main.py lines 24-31: the only middleware added to the app is
\* CORSMiddleware; MessageHistoryMiddleware (history_middleware.py), which
\* schedules a history write of its own for every 200 reply of /classify
\* that has phone_number and message in its body, is never registered
MiddlewareRegistered == FALSE

ScheduleSave_Always(p) == TRUE

\* classify() line 167: the history write is scheduled for this caller
ScheduleSave(p) == Truthy(p)

SaveIsAwaited_Yes == TRUE

\* classify() line 168: the write runs in a task of its own
\* (asyncio.create_task); the route does not await it
SaveIsAwaited == FALSE

\* the sub-categories an exam envelope of the route carries
SubLabels(main) ==
    IF NeedsSubClassification(main)
    THEN {"faq", "asking_important_question", "asking_test"}
    ELSE {None}

\* what `await classify_message(message, phone_number)` gives the route:
\* the envelopes classify() returns for an English query without a subject
\* (every category, every handler result, follow-up or not), or <<>> when
\* it raises ClassificationError
PipelineResults(m, p) ==
    {<<>>} \cup
    UNION { UNION {
        { << Envelope(main, sub, None, "English", m, None,
                      AddFollowUpMetadata(Dispatch(main, sub, out), fu, m)) >>
            : out \in HandlerOutcomes(main, sub),
              fu \in (IF HasPhone(p) THEN BOOLEAN ELSE {FALSE}) }
        : sub \in SubLabels(main) } : main \in ClassificationType }

\* ------------------------------------------------------------------ Init
\* the records the table may hold when the process starts, written under
\* the given retention setting (ttl as in routes.py line 63)
StoredItems(users, retention) ==
    {Item(u, t, t + retention * 24, "hello", "Response generated", FALSE) :
        u \in users, t \in StoredTimestamps}

\* no classify() coroutine has been created
LoopIdle ==
    /\ runs = [r \in RunIds |-> [stage |-> 0, status |-> "idle"]]
    /\ holder = None

\* no subject_main call was made
NoSubjectDoubt ==
    [pc |-> "idle", query |-> "", board |-> <<>>, conceptual |-> <<>>,
     api_calls |-> <<>>, result |-> <<>>]

\* no maintenance operation has run
AuxIdle ==
    /\ last_purge = <<>>
    /\ doubt = [pc |-> "idle", text |-> "", attempts |-> 0,
                generator_calls |-> 0, sleeps |-> 0, last_reply |-> None,
                returned |-> <<>>, result |-> <<>>]
    /\ sdoubt = NoSubjectDoubt

\* no request has reached the route body, default retention, nothing read
ServiceIdle ==
    /\ retention_days = RetentionDays
    /\ requests = 0
    /\ simple_response = <<>>
    /\ tasks = <<>>
    /\ saved = <<>>
    /\ last_read = <<>>
    /\ LoopIdle
    /\ AuxIdle

\* the local variables of classify() before its first statement
FreshContext ==
    /\ is_follow_up' = FALSE
    /\ history' = <<>>
    /\ followup_result' = <<>>
    /\ subject' = None
    /\ language' = None
    /\ translated_message' = None
    /\ query_to_classify' = ""
    /\ main_classification' = ""
    /\ sub_classification' = None
    /\ response_data' = <<>>
    /\ failures' = {}
    /\ calls' = <<>>

\* no request has been made
Idle ==
    /\ pc = "idle"
    /\ entry = ""
    /\ original_message = ""
    /\ phone_number = None
    /\ message = ""
    /\ is_follow_up = FALSE
    /\ history = <<>>
    /\ followup_result = <<>>
    /\ subject = None
    /\ language = None
    /\ translated_message = None
    /\ query_to_classify = ""
    /\ main_classification = ""
    /\ sub_classification = None
    /\ response_data = <<>>
    /\ response = <<>>
    /\ outcome = "none"
    /\ error = ""
    /\ http_status = 0
    /\ failures = {}
    /\ calls = <<>>

Init ==
    /\ tableReady \in BOOLEAN
    /\ store \in SUBSET StoredItems({"u1"}, RetentionDays)
    /\ now = StartNow
    /\ ticks = 0
    /\ Idle
    /\ raising = FALSE
    /\ ServiceIdle

\* --------------------------------------------------------------- actions
\* time passes
Tick ==
    /\ ticks < MaxTicks
    /\ now' = now + 1
    /\ ticks' = ticks + 1
    /\ UNCHANGED <<tableReady, store, pc, requestVars, contextVars,
                   resultVars, failures, calls, serviceVars>>

\* classify_message(message, phone_number): classify() lines 62-72 and 110
ClassifyMessage ==
    /\ pc \in {"idle", "done"}
    /\ \E m \in Messages, p \in PhoneArgs :
          /\ original_message' = m
          /\ message' = m
          /\ phone_number' = p
          /\ pc' = IF HasPhone(p) THEN "history" ELSE "detect"
    /\ entry' = "direct"
    /\ FreshContext
    /\ response' = <<>>
    /\ outcome' = "none"
    /\ error' = ""
    /\ http_status' = 0
    /\ UNCHANGED <<storeVars, serviceVars>>

\* POST /classify (routes.py classify).  FastAPI validates the body against
\* ClassificationRequest first (message has min_length=1: 422).  The route
\* then reads request.phone_number at line 149, an attribute the model does
\* not declare: the AttributeError is caught at line 199 and answered with
\* 500, so lines 152-185 are never reached.
HttpClassify ==
    /\ pc \in {"idle", "done"}
    /\ "phone_number" \notin ClassificationRequestFields
    /\ \E m \in Messages \cup {"", " "}, p \in PhoneArgs :
          /\ original_message' = m
          /\ message' = m
          /\ phone_number' = p
          /\ IF Len(m) < 1
             THEN /\ error' = "request_validation"
                  /\ http_status' = 422
             ELSE /\ error' = "attribute_error"
                  /\ http_status' = 500
    /\ entry' = "http"
    /\ pc' = "done"
    /\ FreshContext
    /\ response' = <<>>
    /\ outcome' = "http_error"
    /\ UNCHANGED <<storeVars, serviceVars>>

\* detect_and_enrich lines 63-75: the history read; with no history the
\* fallback result goes back to classify() without an oracle call
DetectAndEnrichHistory ==
    /\ pc = "history"
    /\ \E backendOk \in BOOLEAN :
          /\ history' = get_conversation_history(phone_number, 0, backendOk)
          /\ failures' = IF tableReady /\ backendOk THEN failures
                         ELSE failures \cup {"history"}
    /\ calls' = Append(calls, Call("history", phone_number))
    /\ IF history' = <<>>
       THEN ApplyFollowUp(FollowUpFallback)
       ELSE /\ pc' = "followup"
            /\ UNCHANGED <<message, is_follow_up, followup_result,
                           resultVars>>
    /\ UNCHANGED <<storeVars, serviceVars, requestVars, subject,
                   language,
                   translated_message, query_to_classify,
                   main_classification, sub_classification, response_data>>

\* detect_and_enrich lines 77-216: the follow-up oracle call and its parse,
\* then classify() lines 74-108
DetectAndEnrichOracle ==
    /\ pc = "followup"
    /\ \E reply \in FollowUpReplies :
          /\ failures' = IF reply.kind = "json" THEN failures
                         ELSE failures \cup {"followup"}
          /\ ApplyFollowUp(ParseFollowUp(reply))
    /\ calls' = Append(calls, Call("followup", message))
    /\ UNCHANGED <<storeVars, serviceVars, requestVars, history,
                   subject, language,
                   translated_message, query_to_classify,
                   main_classification, sub_classification, response_data>>

\* classify() lines 112-123: subject/language detection on the working
\* message; a failure of the detector is fatal
Detect ==
    /\ pc = "detect"
    /\ calls' = Append(calls, Call("detect", message))
    /\ \E reply \in DetectReplies :
          IF reply.kind # "json"
          THEN /\ Raise("detection")
               /\ failures' = failures \cup {"detect"}
               /\ UNCHANGED <<subject, language, query_to_classify>>
          ELSE /\ subject' = _normalize_subject(reply.subject)
               /\ language' = _normalize_language(reply.language)
               /\ query_to_classify' = message
               /\ pc' = IF NeedsTranslation(language') THEN "translate"
                        ELSE "classify"
               /\ UNCHANGED <<resultVars, failures>>
    /\ UNCHANGED <<storeVars, serviceVars, requestVars, message,
                   is_follow_up, history,
                   followup_result, translated_message, main_classification,
                   sub_classification, response_data>>

\* classify() lines 124-132: translation of the working message; on a
\* failure the message is classified untranslated
Translate ==
    /\ pc = "translate"
    /\ calls' = Append(calls, Call("translate", message))
    /\ \E ok \in BOOLEAN :
          IF ok
          THEN /\ translated_message' = translate_query(message)
               /\ query_to_classify' = translate_query(message)
               /\ UNCHANGED failures
          ELSE /\ translated_message' = None
               /\ query_to_classify' = message
               /\ failures' = failures \cup {"translate"}
    /\ pc' = "classify"
    /\ UNCHANGED <<storeVars, serviceVars, requestVars, message,
                   is_follow_up, history,
                   followup_result, subject, language, main_classification,
                   sub_classification, response_data, resultVars>>

\* classify() lines 134-141: primary classification; a failure is fatal
Classify ==
    /\ pc = "classify"
    /\ calls' = Append(calls, Call("classify", query_to_classify))
    /\ \/ /\ Raise("classification")
          /\ failures' = failures \cup {"classify"}
          /\ UNCHANGED main_classification
       \/ \E text \in ClassifierReplyTexts :
             \E label \in ClassifierLabels(text) :
                /\ main_classification' = label
                /\ pc' = IF NeedsSubClassification(label) THEN "subclassify"
                         ELSE "dispatch"
                /\ UNCHANGED <<resultVars, failures>>
    /\ UNCHANGED <<storeVars, serviceVars, requestVars, message,
                   is_follow_up, history,
                   followup_result, subject, language, translated_message,
                   query_to_classify, sub_classification, response_data>>

\* classify() lines 142-149: exam sub-classification
SubClassify ==
    /\ pc = "subclassify"
    /\ calls' = Append(calls, Call("subclassify", query_to_classify))
    /\ \E reply \in ExamReplies :
          /\ sub_classification' = exam_related_main_classifier(reply)
          /\ failures' =
                IF reply.kind = "text"
                   /\ exam_related_main_classifier(reply)
                         \in ExamSubClassificationType
                THEN failures ELSE failures \cup {"subclassify"}
    /\ pc' = "dispatch"
    /\ UNCHANGED <<storeVars, serviceVars, requestVars, message,
                   is_follow_up, history,
                   followup_result, subject, language, translated_message,
                   query_to_classify, main_classification, response_data,
                   resultVars>>

\* classify() lines 151-220: the handler call, the metadata, the envelope
DispatchAndAssemble ==
    /\ pc = "dispatch"
    /\ \E out \in HandlerOutcomes(main_classification, sub_classification)
                   \cup (IF raising THEN {"raise"} ELSE {}) :
          /\ calls' = IF main_classification \in handlers
                      THEN Append(calls, Call("handler", query_to_classify))
                           \o (IF out = "raise" THEN <<>>
                               ELSE HandlerCalls(main_classification,
                                                 sub_classification,
                                                 query_to_classify))
                      ELSE calls
          /\ failures' =
                IF main_classification \in handlers
                   /\ out \in {"error", "raise"}
                THEN failures \cup {IF out = "raise" THEN "handler_raise"
                                    ELSE "handler"}
                ELSE failures
          /\ response_data' =
                AddFollowUpMetadata(Dispatch(main_classification,
                                             sub_classification, out),
                                    is_follow_up, original_message)
    /\ Return(Envelope(main_classification, sub_classification, subject,
                       language, original_message, translated_message,
                       response_data'))
    /\ UNCHANGED <<storeVars, serviceVars, requestVars, message,
                   is_follow_up, history,
                   followup_result, subject, language, translated_message,
                   query_to_classify, main_classification,
                   sub_classification>>

\* the route answers 500: HTTPException(400) of line 153 and every other
\* exception raised inside the try block are caught at lines 187-204
ReplyError(err) ==
    /\ pc' = "done"
    /\ http_status' = 500
    /\ error' = err
    /\ outcome' = "http_error"
    /\ response' = <<>>
    /\ simple_response' = <<>>
    /\ UNCHANGED tasks

\* classify() lines 167-185: the detached history write, the simple reply
Reply(req, m, p, full_response) ==
    /\ response' = <<full_response>>
    /\ outcome' = "returned"
    /\ error' = ""
    /\ tasks' =
          tasks
          \o (IF ScheduleSave(p)
              THEN << [req |-> req, phone_number |-> p,
                       request_message |-> m, via |-> "route",
                       full_response |-> full_response] >>
              ELSE <<>>)
          \o (IF MiddlewareRegistered /\ Truthy(p) /\ Truthy(m)
              THEN << [req |-> req, phone_number |-> p,
                       request_message |-> m, via |-> "middleware",
                       full_response |-> full_response] >>
              ELSE <<>>)
    /\ IF SaveIsAwaited /\ ScheduleSave(p)
       THEN /\ pc' = "await_save"
            /\ http_status' = 0
            /\ simple_response' = <<>>
       ELSE /\ pc' = "done"
            /\ http_status' = 200
            /\ simple_response' = <<transform_to_simple_format(full_response)>>

\* POST /classify, lines 152-204 of the route: the body as it runs for a
\* request on which line 149 does not raise, that is for a request object
\* that carries the message and a phone_number
HttpClassifyBody ==
    /\ pc \in {"idle", "done"}
    /\ requests < MaxRequests
    /\ requests' = requests + 1
    /\ entry' = "route"
    /\ FreshContext
    /\ \E m \in RouteMessages, p \in PhoneArgs :
          /\ original_message' = m
          /\ message' = m
          /\ phone_number' = p
          /\ IF ~Truthy(m) \/ ~Truthy(strip(m))
             THEN ReplyError("http_exception_400")
             ELSE \E result \in PipelineResults(m, p) :
                     IF result = <<>>
                     THEN ReplyError("classification_error")
                     ELSE Reply(requests + 1, m, p, result[1])
    /\ UNCHANGED <<storeVars, raising, retention_days, saved, last_read,
                   loopVars, auxVars>>

\* the detached task: _save_conversation_history (routes.py lines 25-88)
\* and HistoryService.save_conversation (lines 64-108).  Nothing in it
\* suspends, so the tasks run one after the other in creation order.  The
\* write is skipped without a table ("failed"), an exception of put_item
\* is caught and logged ("raised"); nothing is reported to the route.
_save_conversation_history ==
    /\ tasks # <<>>
    /\ \E backend \in {"ok", "raise"} :
          LET task == Head(tasks)
              result == IF ~tableReady THEN "failed"
                        ELSE IF backend = "ok" THEN "saved" ELSE "raised"
          IN /\ store' = IF result = "saved"
                         THEN put_item(store, SaveRequest(task, now))
                         ELSE store
             /\ saved' = Append(saved, [req |-> task.req,
                                        phone_number |-> task.phone_number,
                                        timestamp |-> now,
                                        result |-> result])
             /\ IF pc = "await_save" /\ task.req = requests
                THEN /\ pc' = "done"
                     /\ http_status' = 200
                     /\ simple_response' =
                           <<transform_to_simple_format(task.full_response)>>
                ELSE UNCHANGED <<pc, http_status, simple_response>>
    /\ tasks' = Tail(tasks)
    /\ UNCHANGED <<tableReady, now, ticks, requestVars, contextVars, response,
                   outcome, error, failures, calls, raising, retention_days,
                   requests, last_read, loopVars, auxVars>>

\* a direct call of HistoryService.get_conversation_history(phone, limit)
GetConversationHistory ==
    /\ \E p \in Users, limit \in 0..2, backendOk \in BOOLEAN :
          /\ history' = get_conversation_history(p, limit, backendOk)
          /\ last_read' = << [phone_number |-> p, limit |-> limit,
                              ok |-> tableReady /\ backendOk, at |-> now] >>
    /\ UNCHANGED <<storeVars, pc, requestVars, message, is_follow_up,
                   followup_result, subject, language, translated_message,
                   query_to_classify, main_classification,
                   sub_classification, response_data, resultVars, failures,
                   calls, raising, retention_days, routeVars, loopVars,
                   auxVars>>

\* HistoryService.delete_old_conversations(phone): without a table 0;
\* else the items older than now - retention are deleted one by one and
\* counted.  An exception of the query or of a delete_item ends the loop at
\* the except clause, which returns 0 whatever was deleted before it.
DeleteOldConversations ==
    /\ \E p \in Users :
          LET cutoff == now - retention_days * 24
              items == IF tableReady THEN OldItems(p, cutoff) ELSE <<>>
          IN \E k \in 0..Len(items), raised \in BOOLEAN :
                /\ tableReady \/ ~raised
                /\ raised \/ k = Len(items)
                /\ raised => (k < Len(items) \/ k = 0)
                /\ store' = store \ {items[i] : i \in 1..k}
                /\ last_purge' =
                      << [phone_number |-> p, cutoff |-> cutoff,
                          before |-> store, after |-> store',
                          raised |-> raised,
                          returned |-> IF raised THEN 0 ELSE k] >>
    /\ UNCHANGED <<tableReady, now, ticks, pc, requestVars, contextVars,
                   resultVars, failures, calls, raising, retention_days,
                   routeVars, last_read, loopVars, doubt, sdoubt>>

\* a direct call of HistoryService.save_conversation (lines 64-108) for a
\* turn of user p stamped with the clock: False without a table or when
\* put_item raises, else the item is put and True is returned
SaveConversation ==
    /\ Cardinality({i \in 1..Len(saved) : saved[i].req = 1}) < MaxRequests
    /\ \E p \in Users, m \in Messages, backend \in {"ok", "raise"} :
          LET result == IF ~tableReady THEN "failed"
                        ELSE IF backend = "ok" THEN "saved" ELSE "raised"
          IN /\ store' = IF result = "saved"
                         THEN put_item(store,
                                  Item(p, now, now + retention_days * 24, m,
                                       "Response generated", FALSE))
                         ELSE store
             /\ saved' = Append(saved, [req |-> 1, phone_number |-> p,
                                        timestamp |-> now,
                                        result |-> result])
    /\ UNCHANGED <<tableReady, now, ticks, pc, requestVars, contextVars,
                   resultVars, failures, calls, raising, retention_days,
                   requests, simple_response, tasks, last_read, loopVars,
                   auxVars>>

\* ---- conversation_processor.py, called directly
\* what complete_chat can do: raise, or return the content of the reply,
\* which may be empty or None
GeneratorReplies == {"raise", AnswerText, "", None}

\* conversation_main lines 433-461: the result built from the model response
ConversationResult(model_response) ==
    IF Truthy(model_response)
    THEN [response |-> model_response, openWhatsapp |-> FALSE]
    ELSE [response |-> "", openWhatsapp |-> TRUE]

SleepAfterFailure_Always(attempts) == TRUE

\* process_conversational_doubt line 396: wait unless this was the last
\* attempt
SleepAfterFailure(attempts) == attempts < MAX_ATTEMPTS

\* process_conversational_doubt returns value v to conversation_main, which
\* builds its result
DoubtReturns(d, v) ==
    [d EXCEPT !.pc = "done", !.returned = <<v>>,
              !.result = <<ConversationResult(v)>>]

\* the `while attempts < MAX_ATTEMPTS` test at the top of the loop
DoubtLoopTest(d) ==
    IF d.attempts < MAX_ATTEMPTS THEN [d EXCEPT !.pc = "attempt"]
    ELSE DoubtReturns(d, None)

\* conversation_main(json_data, initial_classification) is called
ConversationMain ==
    /\ doubt.pc \in {"idle", "done"}
    /\ \E text \in Messages :
          doubt' = DoubtLoopTest([pc |-> "idle", text |-> text,
                                  attempts |-> 0, generator_calls |-> 0,
                                  sleeps |-> 0, last_reply |-> None,
                                  returned |-> <<>>, result |-> <<>>])

\* one pass of the loop body: the call of complete_chat and, when it
\* raised, the except clause
ProcessAttempt ==
    /\ doubt.pc = "attempt"
    /\ \E reply \in GeneratorReplies :
          LET called == [doubt EXCEPT !.generator_calls = @ + 1,
                                      !.last_reply = reply]
              failed == [called EXCEPT !.attempts = @ + 1]
          IN doubt' = IF reply # "raise" THEN DoubtReturns(called, reply)
                      ELSE IF SleepAfterFailure(failed.attempts)
                      THEN [failed EXCEPT !.pc = "sleep"]
                      ELSE DoubtLoopTest(failed)

\* time.sleep(RETRY_DELAY) returns and the loop test runs again
RetryDelay ==
    /\ doubt.pc = "sleep"
    /\ doubt' = DoubtLoopTest([doubt EXCEPT !.sleeps = @ + 1])

ConversationalDoubt ==
    /\ ConversationMain \/ ProcessAttempt \/ RetryDelay
    /\ UNCHANGED <<storeVars, pc, requestVars, contextVars, resultVars,
                   failures, calls, raising, retention_days, routeVars,
                   last_read, loopVars, last_purge, sdoubt>>

\* ---- subject_processor.py, called directly
\* what get_doubt_solution / get_conceptual_solution return: None when the
\* request failed or the status was not 200 (ok FALSE), else the JSON object
\* of the reply with its status and its result (HTML, blank or empty)
SolutionReplies ==
    {[ok |-> FALSE, status |-> "", result |-> ""]}
    \cup [ok : {TRUE}, status : {"Yes", "No"},
          result : {"", " ", AnswerText}]

\* html_to_simple_text_with_personal_touch: the converted text, or None when
\* the conversion failed
Conversions == {"personal answer", None}

NeedsConceptual_OnlyOnFailure(board) == ~board.ok

\* handle_subject_doubt lines 325-330 and 390: the board solution failed,
\* has status "No" or has no result
NeedsConceptual(board) ==
    \/ ~board.ok
    \/ board.status = "No"
    \/ ~Truthy(board.result)
    \/ strip(board.result) = ""

\* subject_main lines 459-491: the result for the solution that
\* handle_subject_doubt returned (personalized_answer is set when the
\* solution has a result and the conversion gave a text), or the WhatsApp
\* fallback for None
SubjectResult(solution, converted) ==
    IF solution.ok
    THEN [text |-> IF Truthy(solution.result) /\ Truthy(converted)
                   THEN converted ELSE solution.result,
          status |-> solution.status, openWhatsapp |-> FALSE]
    ELSE [text |-> "whatsapp fallback", status |-> "fallback",
          openWhatsapp |-> TRUE]

\* subject_main(json_data, initial_classification) is called
SubjectMain ==
    /\ sdoubt.pc \in {"idle", "done"}
    /\ \E q \in Messages :
          sdoubt' = [NoSubjectDoubt EXCEPT !.pc = "board", !.query = q]

\* handle_subject_doubt lines 319-389: the board solution call and, when
\* its result is used, the conversion and the return to subject_main
GetDoubtSolution ==
    /\ sdoubt.pc = "board"
    /\ \E board \in SolutionReplies, converted \in Conversions :
          LET called == [sdoubt EXCEPT !.board = <<board>>,
                                       !.api_calls = Append(@, "board")]
          IN sdoubt' =
                IF NeedsConceptual(board)
                THEN [called EXCEPT !.pc = "conceptual"]
                ELSE [called EXCEPT
                         !.pc = "done",
                         !.result = <<SubjectResult(board, converted)>>]

\* handle_subject_doubt lines 333-366 and 390-432: the conceptual solution
\* call, the conversion and the return to subject_main
GetConceptualSolution ==
    /\ sdoubt.pc = "conceptual"
    /\ \E conceptual \in SolutionReplies, converted \in Conversions :
          sdoubt' = [sdoubt EXCEPT
                        !.conceptual = <<conceptual>>,
                        !.api_calls = Append(@, "conceptual"),
                        !.pc = "done",
                        !.result = <<SubjectResult(conceptual, converted)>>]

SubjectDoubt ==
    /\ SubjectMain \/ GetDoubtSolution \/ GetConceptualSolution
    /\ UNCHANGED <<storeVars, pc, requestVars, contextVars, resultVars,
                   failures, calls, raising, retention_days, routeVars,
                   last_read, loopVars, last_purge, doubt>>

\* ---- the event loop.  The coroutines of concurrent classify() calls run
\* on one thread.  A coroutine keeps the thread until it suspends in an
\* await on pending I/O or ends; a synchronous call made inside it keeps the
\* thread for as long as the call lasts.
\* The collaborator calls of one classify() run, in order, and how each is
\* made: the history query (boto3 table.query, history_service.py 136),
\* the follow-up oracle (followup_detector.py 160) and the detector,
\* translator and classifiers (classification_pipeline.py 113-143) are
\* synchronous calls; `await handler.handle` suspends in httpx for the
\* subject and exam handlers and calls OpenAI synchronously for guidance
Stages ==
    <<"history", "followup", "detect", "translate", "classify",
      "subclassify", "handler">>

CallKinds(stage) ==
    IF stage = "handler" THEN {"blocking", "awaited"} ELSE {"blocking"}

\* the coroutine can take its next step: the thread is free or its own
HasThread(r) ==
    \/ runs[r].status = "ready" /\ holder = None
    \/ runs[r].status = "running" /\ holder = r

\* asyncio schedules the coroutine of a new classify_message call
StartRun(r) ==
    /\ runs[r].status = "idle"
    /\ runs' = [runs EXCEPT ![r].status = "ready"]
    /\ UNCHANGED holder

\* the coroutine makes its next collaborator call
EnterCall(r) ==
    /\ HasThread(r)
    /\ runs[r].stage < Len(Stages)
    /\ \E kind \in CallKinds(Stages[runs[r].stage + 1]) :
          IF kind = "blocking"
          THEN /\ runs' = [runs EXCEPT ![r] = [stage |-> @.stage + 1,
                                                status |-> "blocked"]]
               /\ holder' = r
          ELSE /\ runs' = [runs EXCEPT ![r] = [stage |-> @.stage + 1,
                                                status |-> "suspended"]]
               /\ holder' = None

\* the collaborator replies: a synchronous call returns into the running
\* coroutine, an awaited one makes the coroutine ready to be resumed
CallReturns(r) ==
    /\ runs[r].status \in {"blocked", "suspended"}
    /\ runs' = [runs EXCEPT ![r].status =
                   IF @ = "blocked" THEN "running" ELSE "ready"]
    /\ UNCHANGED holder

\* classify() returns
FinishRun(r) ==
    /\ HasThread(r)
    /\ runs[r].stage = Len(Stages)
    /\ runs' = [runs EXCEPT ![r].status = "done"]
    /\ holder' = None

RunStep(r) == EnterCall(r) \/ FinishRun(r)

ClassifyRuns ==
    /\ \E r \in RunIds :
          StartRun(r) \/ EnterCall(r) \/ CallReturns(r) \/ FinishRun(r)
    /\ UNCHANGED <<storeVars, pc, requestVars, contextVars, resultVars,
                   failures, calls, raising, retention_days, routeVars,
                   last_read, auxVars>>

Next ==
    \/ Tick
    \/ ClassifyMessage
    \/ HttpClassify
    \/ DetectAndEnrichHistory
    \/ DetectAndEnrichOracle
    \/ Detect
    \/ Translate
    \/ Classify
    \/ SubClassify
    \/ DispatchAndAssemble

Spec == Init /\ [][Next]_vars

\* the dispatch code of classify() (lines 151-220) applied to every value
\* the category variable can hold, the values without a registered handler
\* included: the run starts at line 151 of a call whose earlier stages
\* replied validly
AnyCategory == ClassificationType \cup {"unknown_category"}

InitDispatch ==
    /\ tableReady \in BOOLEAN
    /\ store \in SUBSET StoredItems({"u1"}, RetentionDays)
    /\ now = StartNow
    /\ ticks = 0
    /\ pc = "dispatch"
    /\ entry = "direct"
    /\ original_message \in Messages
    /\ phone_number = None
    /\ message = original_message
    /\ is_follow_up = FALSE
    /\ history = <<>>
    /\ followup_result = <<>>
    /\ subject \in {None, "Physics"}
    /\ language = "English"
    /\ translated_message = None
    /\ query_to_classify = message
    /\ main_classification \in AnyCategory \ {"exam_related_info"}
    /\ sub_classification = None
    /\ response_data = <<>>
    /\ response = <<>>
    /\ outcome = "none"
    /\ error = ""
    /\ http_status = 0
    /\ failures = {}
    /\ calls = <<Call("detect", message), Call("classify", message)>>
    /\ raising = FALSE
    /\ ServiceIdle

SpecDispatch == InitDispatch /\ [][Next]_vars

\* the pipeline with handlers that may raise: classify() lines 166-183 as
\* they run when the registered handlers are replaced by BaseResponseHandler
\* implementations that let an exception escape
InitRaise ==
    /\ tableReady \in BOOLEAN
    /\ store \in SUBSET StoredItems({"u1"}, RetentionDays)
    /\ now = StartNow
    /\ ticks = 0
    /\ Idle
    /\ raising = TRUE
    /\ ServiceIdle

SpecRaise == InitRaise /\ [][Next]_vars

\* the body of the route and its detached history writes
InitRoute ==
    /\ tableReady \in BOOLEAN
    /\ store = {}
    /\ now = StartNow
    /\ ticks = 0
    /\ Idle
    /\ raising = FALSE
    /\ ServiceIdle

NextRoute ==
    \/ Tick
    \/ HttpClassifyBody
    \/ _save_conversation_history

SpecRoute == InitRoute /\ [][NextRoute]_vars

\* the history service read directly, over tables that hold records of two
\* users written under each retention setting
InitStore ==
    /\ tableReady \in BOOLEAN
    /\ retention_days \in RetentionChoices
    /\ store \in SUBSET StoredItems(Users, retention_days)
    /\ now = StartNow
    /\ ticks = 0
    /\ Idle
    /\ raising = FALSE
    /\ requests = 0
    /\ simple_response = <<>>
    /\ tasks = <<>>
    /\ saved = <<>>
    /\ last_read = <<>>
    /\ LoopIdle
    /\ AuxIdle

NextStore ==
    \/ Tick
    \/ GetConversationHistory

SpecStore == InitStore /\ [][NextStore]_vars

\* history writes and the history stage of later runs.  The table holds the
\* records of the k newest earlier turns of u1, each the result of a
\* completed write
RECURSIVE SavedEntries(_)
SavedEntries(items) ==
    IF items = <<>> THEN <<>>
    ELSE << [req |-> 0, phone_number |-> items[1].phone_number,
             timestamp |-> items[1].timestamp, result |-> "saved"] >>
         \o SavedEntries(Tail(items))

InitTurns ==
    /\ tableReady \in BOOLEAN
    /\ \E k \in 0..Cardinality(TurnTimestamps) :
          LET earlier == {Item("u1", t, t + RetentionDays * 24, "hello",
                               "Response generated", FALSE) :
                             t \in TurnTimestamps}
              newest == {it \in earlier :
                            Cardinality({o \in earlier :
                                            o.timestamp > it.timestamp}) < k}
          IN /\ store = IF tableReady THEN newest ELSE {}
             /\ saved = IF tableReady THEN SavedEntries(OldestFirst(newest))
                        ELSE <<>>
    /\ now = StartNow
    /\ ticks = 0
    /\ Idle
    /\ raising = FALSE
    /\ retention_days = RetentionDays
    /\ requests = 0
    /\ simple_response = <<>>
    /\ tasks = <<>>
    /\ last_read = <<>>
    /\ LoopIdle
    /\ AuxIdle

NextTurns ==
    \/ Tick
    \/ SaveConversation
    \/ ClassifyMessage
    \/ DetectAndEnrichHistory

SpecTurns == InitTurns /\ [][NextTurns]_vars

\* the manual clean-up of the table, at any time and retention setting
NextPurge ==
    \/ Tick
    \/ DeleteOldConversations

SpecPurge == InitStore /\ [][NextPurge]_vars

\* concurrent classify() calls on the event loop of one process
InitLoop ==
    /\ tableReady \in BOOLEAN
    /\ store = {}
    /\ now = StartNow
    /\ ticks = 0
    /\ Idle
    /\ raising = FALSE
    /\ ServiceIdle

NextLoop ==
    \/ Tick
    \/ ClassifyRuns

SpecLoop == InitLoop /\ [][NextLoop]_vars

\* direct calls of conversation_main, one after the other
NextDoubt ==
    \/ Tick
    \/ ConversationalDoubt

SpecDoubt == InitLoop /\ [][NextDoubt]_vars

\* direct calls of subject_main, one after the other
NextSubject ==
    \/ Tick
    \/ SubjectDoubt

SpecSubject == InitLoop /\ [][NextSubject]_vars

\* ---------------------------------------------------------------- claims
StopRequested ==
    followup_result # <<>> /\ followup_result[1].should_stop_conversation

\* the working message the follow-up result prescribes: the enriched
\* message of a follow-up that carries a non-empty one, else the raw input
Working ==
    IF /\ followup_result # <<>>
       /\ followup_result[1].is_follow_up
       /\ followup_result[1].enriched_message \notin {None, ""}
    THEN followup_result[1].enriched_message
    ELSE original_message

\* C1: a call whose follow-up detection returned shouldStop = true returns
\* (and does not raise) the 'conversation ended' envelope: the fixed stop
\* category, an empty body and confidence 1.0.
C1_StopReturnsEnvelope ==
    (pc = "done" /\ StopRequested) =>
        /\ outcome = "returned"
        /\ response # <<>>
        /\ response[1].classification = "conversation_based"
        /\ response[1].sub_classification = "stop_conversation"
        /\ response[1].response_data[1].message = ""
        /\ response[1].confidence_score = 100

\* C2: once follow-up detection has returned shouldStop = true, the run
\* makes no call to detection, translation, primary classification,
\* sub-classification or a handler.
C2_NoOracleAfterStop ==
    StopRequested => CallOps \cap DownstreamOps = {}

C2_Witness ==
    /\ pc = "done"
    /\ StopRequested
    /\ CallOps = {"history", "followup"}

\* C3: a request fails only when detection or primary classification
\* failed; every other execution (every soft fallback, every valid oracle
\* reply) ends with a success envelope.
C3_OnlyFatalStagesFail ==
    (pc = "done" /\ failures \cap {"detect", "classify"} = {}) =>
        outcome = "returned"

C5_FollowUpNeedsHistory ==
    /\ "followup" \in CallOps =>
          phone_number \notin {None, ""} /\ history # <<>>
    /\ (entry = "direct" /\ phone_number \in {None, ""}) =>
          /\ CallOps \cap {"history", "followup"} = {}
          /\ IF calls = <<>> THEN pc = "detect"
             ELSE calls[1].op = "detect"

C5_Witness ==
    /\ pc = "done"
    /\ outcome = "returned"
    /\ phone_number = None
    /\ calls[1].op = "detect"

\* C6: when the history store is unavailable or the follow-up oracle fails
\* (exception, unparseable or malformed reply) the run is not a follow-up,
\* does not stop, goes on to detection with the raw message, and the error
\* never reaches the caller.
C6_FollowUpFailureIsSoft ==
    (failures \cap {"history", "followup"} # {}) =>
        /\ followup_result # <<>>
        /\ ~followup_result[1].should_stop_conversation
        /\ ~followup_result[1].is_follow_up
        /\ ~is_follow_up
        /\ message = original_message
        /\ error \notin {"history", "followup"}
        /\ IF pc = "detect" THEN outcome = "none"
           ELSE \E i \in 1..Len(calls) :
                   calls[i] = Call("detect", original_message)

C6_Witness ==
    /\ pc = "done"
    /\ outcome = "returned"
    /\ "followup" \in failures

\* C7: translation is called exactly when the detected language is not
\* English; when it fails, primary classification still runs, on the
\* untranslated working message, and the envelope has no translated
\* message.
C7_TranslationGateAndFallback ==
    /\ (pc \in {"classify", "subclassify", "dispatch", "done"}
        /\ language # None) =>
          ("translate" \in CallOps <=> language # "English")
    /\ "translate" \in failures =>
          /\ translated_message = None
          /\ \/ pc = "classify"
             \/ \E i \in 1..Len(calls) : calls[i] = Call("classify", message)
          /\ response # <<>> => response[1].translated_message = None

C7_Witness ==
    /\ pc = "done"
    /\ outcome = "returned"
    /\ "translate" \in failures
    /\ language = "Hinglish"

C9_SubClassificationFailureIsSoft ==
    (pc = "done" /\ "subclassify" \in failures) =>
        /\ sub_classification = None
        /\ outcome = "returned"

C12_WriteDetached ==
    /\ \A i \in 1..Len(tasks) : Truthy(tasks[i].phone_number)
    /\ \A i \in 1..Len(saved) : Truthy(saved[i].phone_number)
    /\ pc # "await_save"
    /\ (entry = "route" /\ outcome = "returned") =>
          /\ http_status = 200
          /\ error = ""
          /\ simple_response = <<transform_to_simple_format(response[1])>>

C12_Witness ==
    /\ entry = "route"
    /\ http_status = 200
    /\ simple_response # <<>>
    /\ \E i \in 1..Len(saved) :
          saved[i].req = requests /\ saved[i].result = "raised"
    /\ \E i \in 1..Len(saved) : saved[i].result = "failed" \/ saved[i].result = "saved"

C14_RunsIndependent ==
    \A a \in RunIds, b \in RunIds :
        (a # b /\ runs[a].status \in {"blocked", "suspended"}
               /\ runs[b].status = "ready") => ENABLED RunStep(b)

\* C15: the history writes of one user each use a turn timestamp of their
\* own: no two completed writes for the same phone_number carry the same
\* timestamp, so no write replaces a record written before.
C15_UniqueTurnTimestamp ==
    \A i \in 1..Len(saved), j \in 1..Len(saved) :
        (i # j /\ saved[i].result = "saved" /\ saved[j].result = "saved"
               /\ saved[i].phone_number = saved[j].phone_number)
            => saved[i].timestamp # saved[j].timestamp

\* the records of one user stamped after `from` (or at `from`, when the
\* start is inclusive) and not later than `to`
InWindow(phone, from, to, inclusive) ==
    {it \in store : /\ it.phone_number = phone
                    /\ it.timestamp <= to
                    /\ \/ it.timestamp > from
                       \/ inclusive /\ it.timestamp = from}

\* the result of the last read is the newest-first listing of the newest
\* maxCount records of the window W
IsRecentWindowOf(W, maxCount) ==
    /\ \A i \in 1..Len(history) : history[i] \in W
    /\ \A i \in 1..Len(history), j \in 1..Len(history) :
          i < j => history[i].timestamp > history[j].timestamp
    /\ Len(history) = IF Cardinality(W) < maxCount
                      THEN Cardinality(W) ELSE maxCount
    /\ \A it \in W :
          (\A i \in 1..Len(history) : history[i] # it)
              => \A i \in 1..Len(history) :
                    history[i].timestamp > it.timestamp

\* the count bound a read applies: the configured default without a limit
EffectiveLimit(limit) == IF limit = 0 THEN MessagesLimit ELSE limit

C17_NoExpiredRecordReturned ==
    (last_read # <<>> /\ last_read[1].ok) =>
        \A i \in 1..Len(history) : history[i].ttl >= last_read[1].at

\* C18: every completed history write stores, as response_message, the
\* message string that the route returned for that turn and, as
\* request_message, the caller's raw message.
C18_SavedResponseIsReturned ==
    [][ (/\ tasks # <<>>
         /\ tasks' = Tail(tasks)
         /\ Len(saved') = Len(saved) + 1
         /\ saved'[Len(saved')].result = "saved")
        => LET task == Head(tasks)
               item == SaveRequest(task, now)
           IN /\ item \in store'
              /\ item.request_message = task.request_message
              /\ item.response_message =
                    transform_to_simple_format(task.full_response).message
      ]_vars

\* C19: a POST /classify whose message is empty or only whitespace is
\* answered with HTTP 400; the pipeline made no call and no history write
\* was scheduled.
C19_EmptyMessageRejected400 ==
    (entry = "http" /\ pc = "done" /\ strip(original_message) = "") =>
        /\ http_status = 400
        /\ calls = <<>>
        /\ tasks = <<>>

\* the reply shape checked by validate_simple_format: status is success or
\* error and the message is a string that is not empty after strip()
IsSimpleFormat(reply) ==
    /\ reply.status \in {"success", "error"}
    /\ reply.message # None
    /\ strip(reply.message) # ""

\* C20: every 200 reply of the route has a status of success or error and
\* a message that is a non-empty string, and transform_to_simple_format
\* gives such a reply for every envelope the pipeline returns.
C20_SimpleFormatAlways ==
    /\ http_status = 200 =>
          /\ simple_response # <<>>
          /\ IsSimpleFormat(simple_response[1])
    /\ (outcome = "returned" /\ response # <<>>) =>
          IsSimpleFormat(transform_to_simple_format(response[1]))

\* C21: a run in which no collaborator failed and whose category has a
\* handler returns an envelope whose handler result has status success, for
\* each of the six categories.
C21_EveryCategorySucceeds ==
    (/\ pc = "done"
     /\ outcome = "returned"
     /\ failures = {}
     /\ response # <<>>
     /\ response[1].response_data # <<>>)
        => response[1].response_data[1].status = "success"

\* C22: delete_old_conversations removes only records of the given user
\* that are older than the cutoff, and the number it returns is the number
\* of records it removed, also when an error ended the purge part-way.
C22_PurgeReturnsDeletedCount ==
    last_purge # <<>> =>
        LET lp == last_purge[1]
            removed == lp.before \ lp.after
        IN /\ lp.after \subseteq lp.before
           /\ \A it \in removed : /\ it.phone_number = lp.phone_number
                                  /\ it.timestamp < lp.cutoff
           /\ lp.returned = Cardinality(removed)

\* the number of calls of collaborator `op` in this run
CountCalls(op) == Cardinality({i \in 1..Len(calls) : calls[i].op = op})

\* C23: once the exam handler has handled a query, the external exam API
\* was not called when the sub-classification is asking_important_question
\* (local template) or faq (one call of the local FAQ handler), and was
\* called exactly once for every other sub-classification, none included.
C23_ExamApiRouting ==
    (/\ pc = "done"
     /\ main_classification = "exam_related_info"
     /\ "handler" \in CallOps)
        => IF sub_classification = "asking_important_question"
           THEN CountCalls("exam_api") = 0 /\ CountCalls("exam_faq") = 0
           ELSE IF sub_classification = "faq"
           THEN CountCalls("exam_api") = 0 /\ CountCalls("exam_faq") = 1
           ELSE CountCalls("exam_api") = 1 /\ CountCalls("exam_faq") = 0

C23_Witness ==
    /\ pc = "done"
    /\ outcome = "returned"
    /\ main_classification = "exam_related_info"
    /\ sub_classification = "faq"
    /\ "handler" \in CallOps
    /\ CountCalls("exam_faq") = 1
    /\ CountCalls("exam_api") = 0

\* C24: in every returned envelope that has a handler result, the
\* is_follow_up value of the metadata, and with it the flag stored in the
\* history record, is true exactly when the working message of the run was
\* replaced by the enriched message; also when the handler raised or
\* returned a result without metadata.
C24_FollowUpFlagIffEnriched ==
    (/\ pc = "done"
     /\ outcome = "returned"
     /\ response # <<>>
     /\ response[1].response_data # <<>>)
        => /\ response[1].response_data[1].metadata.is_follow_up
                <=> (message # original_message)
           /\ SavedIsFollowUp(response[1]) <=> (message # original_message)

C24_Witness ==
    /\ pc = "done"
    /\ outcome = "returned"
    /\ response # <<>>
    /\ "handler_raise" \in failures
    /\ message # original_message
    /\ SavedIsFollowUp(response[1])

\* C25: a /classify call adds exactly one history write when it returns
\* an envelope for a caller with a phone_number and none otherwise (no
\* phone_number, rejected message, fatal stage); no other step adds one.
C25_OneWritePerTurn ==
    [][ IF requests' # requests
        THEN Len(tasks') = Len(tasks)
                 + (IF outcome' = "returned" /\ Truthy(phone_number')
                    THEN 1 ELSE 0)
        ELSE Len(tasks') <= Len(tasks) ]_vars

C25_Witness ==
    /\ requests = 2
    /\ outcome = "http_error"
    /\ Len(tasks) + Len(saved) = 1
    /\ \A i \in 1..Len(tasks) : tasks[i].via = "route"

\* follow-up detection asked to stop and, in the same result, reported a
\* follow-up with a non-empty enriched message
StopWithEnriched ==
    /\ StopRequested
    /\ followup_result[1].is_follow_up
    /\ Truthy(followup_result[1].enriched_message)

\* C26: when the follow-up result sets should_stop together with
\* is_follow_up and an enriched message, the run has ended at the stop
\* branch: the working message is still the raw one, no downstream stage
\* was called, and no call received the enriched message.
C26_StopWinsOverEnrichment ==
    StopWithEnriched =>
        /\ pc = "done"
        /\ message = original_message
        /\ ~is_follow_up
        /\ CallOps \subseteq {"history", "followup"}
        /\ \A i \in 1..Len(calls) :
              calls[i].arg # followup_result[1].enriched_message

C26_Witness ==
    /\ StopWithEnriched
    /\ pc = "done"
    /\ entry = "direct"
    /\ Len(calls) = 2

\* the record stamped ts is among the MessagesLimit newest of the caller
AmongNewest(ts) ==
    Cardinality({it \in store : /\ it.phone_number = phone_number
                                /\ it.timestamp > ts}) < MessagesLimit

\* every turn of the caller whose write completed before this read, stamped
\* inside the window and among the newest, is in the history read
CompletedTurnsReceived ==
    \A i \in 1..Len(saved) :
        (/\ saved[i].result = "saved"
         /\ saved[i].phone_number = phone_number
         /\ saved[i].timestamp > now - WindowHours
         /\ AmongNewest(saved[i].timestamp))
            => \E j \in 1..Len(history') :
                  /\ history'[j].phone_number = phone_number
                  /\ history'[j].timestamp = saved[i].timestamp

\* the history stage took its step: it never waits or fails, and what it
\* hands to the follow-up stage are records that are in the table
HistoryStageProceeds ==
    /\ pc' \in {"followup", "detect"}
    /\ \A j \in 1..Len(history') : history'[j] \in store

C28_PrimaryLabelInClosedSet ==
    ("classify" \in CallOps /\ "classify" \notin failures) =>
        /\ main_classification \in valid_categories
        /\ Cardinality(valid_categories) = 6
        /\ main_classification \in handlers

C28_Witness ==
    /\ pc = "dispatch"
    /\ "classify" \in CallOps
    /\ "classify" \notin failures
    /\ main_classification = "conversation_based"

\* C29: process_conversational_doubt calls the response generator at most
\* MAX_ATTEMPTS times and has waited once after each failed attempt but
\* the last; when it is over, either the last call succeeded and its reply
\* was returned at once, or all MAX_ATTEMPTS calls failed, None was
\* returned and conversation_main answered an empty response with
\* openWhatsapp true.
C29_RetryLoopBounded ==
    /\ doubt.generator_calls <= MAX_ATTEMPTS
    /\ doubt.attempts <= doubt.generator_calls
    /\ doubt.pc = "sleep" => /\ doubt.attempts < MAX_ATTEMPTS
                             /\ doubt.sleeps = doubt.attempts - 1
    /\ doubt.pc = "attempt" => doubt.sleeps = doubt.attempts
    /\ doubt.pc = "done" =>
          IF doubt.last_reply # "raise"
          THEN /\ doubt.returned = <<doubt.last_reply>>
               /\ doubt.generator_calls = doubt.attempts + 1
               /\ doubt.sleeps = doubt.attempts
          ELSE /\ doubt.attempts = MAX_ATTEMPTS
               /\ doubt.generator_calls = MAX_ATTEMPTS
               /\ doubt.sleeps = MAX_ATTEMPTS - 1
               /\ doubt.returned = <<None>>
               /\ doubt.result = << [response |-> "", openWhatsapp |-> TRUE] >>

C29_Witness ==
    /\ doubt.pc = "done"
    /\ doubt.generator_calls = MAX_ATTEMPTS
    /\ doubt.sleeps = MAX_ATTEMPTS - 1
    /\ doubt.returned = <<None>>
    /\ doubt.result[1].openWhatsapp

\* the board solution failed or came back empty: no reply, status "No",
\* or a result that is empty or blank
BoardFailedOrEmpty ==
    \/ ~sdoubt.board[1].ok
    \/ sdoubt.board[1].status = "No"
    \/ strip(sdoubt.board[1].result) = ""

====
